---- MODULE Spec2Model ----
(***************************************************************************)
(* A model of the xhr package (Request: Send, Abort) and of the Transport  *)
(* built on it (RoundTrip, setCanceler, CancelRequest).                    *)
(*                                                                         *)
(* A thread is a goroutine that calls RoundTrip (specification Spec) or    *)
(* Send directly (specification SpecXHR).  A handle is one *xhr.Request    *)
(* together with the XMLHttpRequest object it wraps.  The XMLHttpRequest   *)
(* is seen only through the calls the package makes on it and the events   *)
(* it delivers to the listeners Send registers.                            *)
(***************************************************************************)
EXTENDS Naturals, Sequences, FiniteSets

\* ------------------------------------------------------------- bounds
\* The calls that reach an XMLHttpRequest's abort.
MaxAborts == 2
\* The Transport values in use.
NAdapters == 2

\* Two goroutines call RoundTrip (or Send), a third calls CancelRequest.
Threads == {1, 2}
Cancelers == {3}
\* RoundTrip builds one handle per call (transport.go:43), so a handle is
\* named after the thread that owns it.
Handles == Threads
Adapters == 1..NAdapters
NoAdapter == NAdapters + 1

\* ------------------------------------------------------------- data
\* make(chan error, 1)
ChanCap == 1

ErrAborted == "ErrAborted"
ErrTimeout == "ErrTimeout"
ErrFailure == "ErrFailure"
ErrHost == "ErrHost"
ErrBody == "ErrBody"
ErrHeader == "ErrHeader"
Nil == "nil"

Outcomes == {Nil, ErrFailure, ErrTimeout, ErrAborted}
TerminalEvents == {"load", "error", "timeout"}

\* The value the listener of each terminal event hands to the channel.
EventOutcome(e) ==
    CASE e = "load" -> Nil
      [] e = "error" -> ErrFailure
      [] e = "timeout" -> ErrTimeout

\* What a loaded XMLHttpRequest holds: the status and the raw header block.
Replies == [status : {200, 404, 500}, hdr : {"wellformed", "malformed"}]
NoReply == [status |-> 0, hdr |-> "none"]

\* The *http.Request values a caller can pass.  A request is identified by
\* its pointer; Host, Body and Header are fields of the request.
Reqs == {"r1", "r2", "rHost", "rBadBody"}
ReqHost(r) == IF r = "rHost" THEN "other.example" ELSE ""
ReqBody(r) ==
    CASE r = "r2" -> "readable"
      [] r = "rBadBody" -> "failing"
      [] OTHER -> "nil"
ReqHeader(r) ==
    CASE r = "r1" -> [Accept |-> <<"a", "b">>]
      [] r = "rBadBody" -> [Accept |-> <<"a">>, Cookie |-> <<"x", "y">>]
      [] OTHER -> [Accept |-> <<"a">>]

VARIABLES
    \* --- xhr.Request, per handle
    ch,         \* r.ch: FALSE while nil, TRUE once made
    buf,        \* the buffer of r.ch
    recvq,      \* the threads parked in <-r.ch
    listening,  \* the three listeners are registered
    prim,       \* the XMLHttpRequest: "none", "opened", "sent"
    event,      \* the event it has fired: "none", a terminal event, "abort"
    reply,      \* the status and headers RoundTrip has read from it
    response,   \* the Response field is non-nil
    gor,        \* the listener's goroutine: "none", "spawned", "blocked", "done"
    hdrCalls,   \* the SetRequestHeader calls made, in order
    \* --- history, per handle
    writes,     \* the values written to r.ch, in order
    outcomes,   \* the values Send has returned, in order
    primAborts, \* the number of abort calls made on the XMLHttpRequest
    dispatches, \* the number of send calls made on the XMLHttpRequest
    \* --- history kept by the specifications that watch the no-op calls
    abortFirst, \* SpecXHR: what the first Abort call on the handle met:
                \* "never" (no call yet), "unsent" (r.ch was nil), else the
                \* event the XMLHttpRequest had fired
    cancelMissed, \* SpecCancel: flips at each CancelRequest that finds no entry
    cancelHit,  \* SpecRecancel, per handle: a CancelRequest has found it
    \* --- threads
    pc, x, sendRet, rq, tr, rtErr, rtResp, bodyRead,
    \* --- Transport, per adapter
    mu,         \* t.mu: the set of goroutines holding it
    mapMade,    \* t.inflight is non-nil
    inflight    \* t.inflight: a function from the registered requests

xhrVars == <<ch, buf, recvq, listening, prim, event, reply, response, gor,
             hdrCalls, writes, outcomes, primAborts, dispatches, abortFirst>>
thrVars == <<pc, x, sendRet, rq, tr, rtErr, rtResp, bodyRead>>
trVars == <<mu, mapMade, inflight, cancelMissed, cancelHit>>
vars == <<xhrVars, thrVars, trVars>>

\* ------------------------------------------------------------- initial states
EmptyMap == [r \in {} |-> 0]

InitThreads ==
    /\ pc = [t \in Threads |-> "idle"]
    /\ x = [t \in Threads |-> t]
    /\ sendRet = [t \in Threads |-> "none"]
    /\ rq = [t \in Threads |-> "none"]
    /\ tr = [t \in Threads |-> NoAdapter]
    /\ rtErr = [t \in Threads |-> "none"]
    /\ rtResp = [t \in Threads |-> NoReply]
    /\ bodyRead = [t \in Threads |-> FALSE]

InitRest ==
    /\ ch = [h \in Handles |-> FALSE]
    /\ buf = [h \in Handles |-> <<>>]
    /\ recvq = [h \in Handles |-> {}]
    /\ listening = [h \in Handles |-> FALSE]
    /\ event = [h \in Handles |-> "none"]
    /\ reply = [h \in Handles |-> NoReply]
    /\ response = [h \in Handles |-> FALSE]
    /\ gor = [h \in Handles |-> "none"]
    /\ hdrCalls = [h \in Handles |-> <<>>]
    /\ writes = [h \in Handles |-> <<>>]
    /\ outcomes = [h \in Handles |-> <<>>]
    /\ primAborts = [h \in Handles |-> 0]
    /\ dispatches = [h \in Handles |-> 0]
    /\ abortFirst = [h \in Handles |-> "never"]
    /\ cancelMissed = FALSE
    /\ cancelHit = [h \in Handles |-> FALSE]
    /\ mu = [a \in Adapters |-> {}]
    /\ mapMade = [a \in Adapters |-> FALSE]
    /\ inflight = [a \in Adapters |-> EmptyMap]
    /\ InitThreads

\* Transport: no handle exists until RoundTrip calls NewRequest.
Init ==
    /\ prim = [h \in Handles |-> "none"]
    /\ InitRest

\* xhr used directly: one handle has been made with NewRequest and is
\* shared by the threads.
XhrHandles == {1}

InitXHR ==
    /\ prim = [h \in Handles |-> IF h \in XhrHandles THEN "opened" ELSE "none"]
    /\ InitRest

\* ------------------------------------------------------------- the channel
\* A send on r.ch can proceed: a receiver is parked or the buffer has room.
CanSend(h) == recvq[h] # {} \/ Len(buf[h]) < ChanCap

\* r.ch <- v, when it can proceed: handed to the parked receiver, which
\* then returns it from Send (val := <-r.ch; return val), else buffered.
ChanSend(h, v) ==
    /\ writes' = [writes EXCEPT ![h] = Append(@, v)]
    /\ IF recvq[h] # {}
       THEN \E t \in recvq[h] :
              /\ recvq' = [recvq EXCEPT ![h] = @ \ {t}]
              /\ pc' = [pc EXCEPT ![t] = "send_ret"]
              /\ sendRet' = [sendRet EXCEPT ![t] = v]
              /\ outcomes' = [outcomes EXCEPT ![h] = Append(@, v)]
              /\ UNCHANGED buf
       ELSE /\ buf' = [buf EXCEPT ![h] = Append(@, v)]
            /\ UNCHANGED <<recvq, pc, sendRet, outcomes>>

\* <-r.ch when the buffer holds a value: the value is taken, and a sender
\* blocked on the full buffer moves its value in and ends.
ChanTake(h) ==
    IF gor[h] = "blocked"
    THEN /\ buf' = [buf EXCEPT ![h] = Append(Tail(@), EventOutcome(event[h]))]
         /\ writes' = [writes EXCEPT ![h] = Append(@, EventOutcome(event[h]))]
         /\ gor' = [gor EXCEPT ![h] = "done"]
    ELSE /\ buf' = [buf EXCEPT ![h] = Tail(@)]
         /\ UNCHANGED <<writes, gor>>

\* ------------------------------------------------------------- Request.Send
\* Send without the check for reuse: the channel is made anew each time.
SendBeginUnchecked(t, h) ==
    /\ x' = [x EXCEPT ![t] = h]
    /\ pc' = [pc EXCEPT ![t] = "send_listen"]
    /\ ch' = [ch EXCEPT ![h] = TRUE]
    /\ buf' = [buf EXCEPT ![h] = <<>>]
    /\ UNCHANGED <<recvq, listening, prim, event, reply, response, gor,
                   hdrCalls, writes, outcomes, primAborts, dispatches, abortFirst>>
    /\ UNCHANGED <<sendRet, rq, tr, rtErr, rtResp, bodyRead>>
    /\ UNCHANGED trVars

\* if r.ch != nil { panic(...) }; r.ch = make(chan error, 1)
SendBegin(t, h) ==
    /\ x' = [x EXCEPT ![t] = h]
    /\ IF ch[h]
       THEN /\ pc' = [pc EXCEPT ![t] = "panicked"]
            /\ UNCHANGED ch
       ELSE /\ pc' = [pc EXCEPT ![t] = "send_listen"]
            /\ ch' = [ch EXCEPT ![h] = TRUE]
    /\ UNCHANGED <<buf, recvq, listening, prim, event, reply, response, gor,
                   hdrCalls, writes, outcomes, primAborts, dispatches, abortFirst>>
    /\ UNCHANGED <<sendRet, rq, tr, rtErr, rtResp, bodyRead>>
    /\ UNCHANGED trVars

\* Send that goes on to dispatch without registering its listeners.
SendListenSkipped(t) ==
    /\ pc[t] = "send_listen"
    /\ pc' = [pc EXCEPT ![t] = "send_dispatch"]
    /\ UNCHANGED <<ch, buf, recvq, listening, prim, event, reply, response, gor,
                   hdrCalls, writes, outcomes, primAborts, dispatches, abortFirst>>
    /\ UNCHANGED <<x, sendRet, rq, tr, rtErr, rtResp, bodyRead>>
    /\ UNCHANGED trVars

\* r.AddEventListener("load" | "error" | "timeout", ...)
SendListen(t) ==
    /\ pc[t] = "send_listen"
    /\ listening' = [listening EXCEPT ![x[t]] = TRUE]
    /\ pc' = [pc EXCEPT ![t] = "send_dispatch"]
    /\ UNCHANGED <<ch, buf, recvq, prim, event, reply, response, gor,
                   hdrCalls, writes, outcomes, primAborts, dispatches, abortFirst>>
    /\ UNCHANGED <<x, sendRet, rq, tr, rtErr, rtResp, bodyRead>>
    /\ UNCHANGED trVars

\* r.Call("send", data)
SendDispatch(t) ==
    /\ pc[t] = "send_dispatch"
    /\ prim' = [prim EXCEPT ![x[t]] = "sent"]
    /\ dispatches' = [dispatches EXCEPT ![x[t]] = @ + 1]
    /\ pc' = [pc EXCEPT ![t] = "send_recv"]
    /\ UNCHANGED <<ch, buf, recvq, listening, event, reply, response, gor,
                   hdrCalls, writes, outcomes, primAborts, abortFirst>>
    /\ UNCHANGED <<x, sendRet, rq, tr, rtErr, rtResp, bodyRead>>
    /\ UNCHANGED trVars

\* val := <-r.ch; return val
SendRecv(t) ==
    /\ pc[t] = "send_recv"
    /\ IF buf[x[t]] # <<>>
       THEN /\ ChanTake(x[t])
            /\ sendRet' = [sendRet EXCEPT ![t] = Head(buf[x[t]])]
            /\ outcomes' = [outcomes EXCEPT ![x[t]] = Append(@, Head(buf[x[t]]))]
            /\ pc' = [pc EXCEPT ![t] = "send_ret"]
            /\ UNCHANGED recvq
       ELSE /\ recvq' = [recvq EXCEPT ![x[t]] = @ \cup {t}]
            /\ pc' = [pc EXCEPT ![t] = "send_parked"]
            /\ UNCHANGED <<buf, writes, gor, sendRet, outcomes>>
    /\ UNCHANGED <<ch, listening, prim, event, reply, response,
                   hdrCalls, primAborts, dispatches, abortFirst>>
    /\ UNCHANGED <<x, rq, tr, rtErr, rtResp, bodyRead>>
    /\ UNCHANGED trVars

\* ------------------------------------------------------------- the events
\* The XMLHttpRequest fires one terminal event after send.  A registered
\* listener starts a goroutine for it: go func() { r.ch <- v }().
FireEvent(h, e) ==
    /\ prim[h] = "sent"
    /\ event[h] = "none"
    /\ event' = [event EXCEPT ![h] = e]
    /\ response' = [response EXCEPT ![h] = (e = "load")]
    /\ UNCHANGED reply
    /\ gor' = [gor EXCEPT ![h] = IF listening[h] THEN "spawned" ELSE @]
    /\ UNCHANGED <<ch, buf, recvq, listening, prim, hdrCalls, writes,
                   outcomes, primAborts, dispatches, abortFirst>>
    /\ UNCHANGED <<thrVars, trVars>>

\* The goroutine runs r.ch <- v: it writes, or blocks on the full buffer.
GoroutineWrite(h) ==
    /\ gor[h] = "spawned"
    /\ IF CanSend(h)
       THEN /\ ChanSend(h, EventOutcome(event[h]))
            /\ gor' = [gor EXCEPT ![h] = "done"]
       ELSE /\ gor' = [gor EXCEPT ![h] = "blocked"]
            /\ UNCHANGED <<buf, recvq, writes, outcomes, pc, sendRet>>
    /\ UNCHANGED <<ch, listening, prim, event, reply, response, hdrCalls,
                   primAborts, dispatches, abortFirst>>
    /\ UNCHANGED <<x, rq, tr, rtErr, rtResp, bodyRead>>
    /\ UNCHANGED trVars

\* ------------------------------------------------------------- Request.Abort
\* An abort that leaves a response already loaded as it is.
PrimAbortKeepsResponse(h, stops) ==
    /\ primAborts' = [primAborts EXCEPT ![h] = @ + 1]
    /\ event' = [event EXCEPT ![h] =
                   IF prim[h] = "sent" /\ @ = "none" /\ stops THEN "abort" ELSE @]
    /\ UNCHANGED response

\* r.Call("abort") on the XMLHttpRequest: a request in flight is cancelled
\* (it fires "abort", which has no listener) unless its completion can no
\* longer be stopped; a response already loaded is cleared.
PrimAbort(h, stops) ==
    /\ primAborts' = [primAborts EXCEPT ![h] = @ + 1]
    /\ event' = [event EXCEPT ![h] =
                   IF prim[h] = "sent" /\ @ = "none" /\ stops THEN "abort" ELSE @]
    /\ response' = [response EXCEPT ![h] = FALSE]

\* Abort that only calls abort on the XMLHttpRequest and signals nothing.
AbortSignalOmitted(h) == UNCHANGED <<buf, recvq, writes, outcomes, pc, sendRet>>

\* Abort that signals the network failure instead of ErrAborted.
AbortSignalAsFailure(h) ==
    IF CanSend(h)
    THEN ChanSend(h, ErrFailure)
    ELSE UNCHANGED <<buf, recvq, writes, outcomes, pc, sendRet>>

\* select { case r.ch <- ErrAborted: default: }
AbortSignal(h) ==
    IF CanSend(h)
    THEN ChanSend(h, ErrAborted)
    ELSE UNCHANGED <<buf, recvq, writes, outcomes, pc, sendRet>>

\* Abort without the check for r.ch == nil.
AbortUnchecked(h) ==
    /\ \E stops \in BOOLEAN : PrimAbort(h, stops)
    /\ IF ch[h] THEN AbortSignal(h)
       ELSE UNCHANGED <<buf, recvq, writes, outcomes, pc, sendRet>>
    /\ UNCHANGED <<ch, listening, prim, reply, gor, hdrCalls, dispatches>>
    /\ UNCHANGED <<x, rq, tr, rtErr, rtResp, bodyRead>>

\* func (r *Request) Abort()
Abort(h) ==
    /\ IF ~ch[h]
       THEN UNCHANGED <<primAborts, event, response, buf, recvq, writes,
                        outcomes, pc, sendRet>>
       ELSE /\ \E stops \in BOOLEAN : PrimAbort(h, stops)
            /\ AbortSignal(h)
    /\ UNCHANGED <<ch, listening, prim, reply, gor, hdrCalls, dispatches>>
    /\ UNCHANGED <<x, rq, tr, rtErr, rtResp, bodyRead>>

\* The abort calls made so far on the XMLHttpRequests of the handles in S.
RECURSIVE AbortsOf(_)
AbortsOf(S) ==
    IF S = {} THEN 0
    ELSE LET h == CHOOSE k \in S : TRUE IN primAborts[h] + AbortsOf(S \ {h})

\* The model stops making calls that reach an XMLHttpRequest's abort once
\* MaxAborts of them have been made.
MayAbort == AbortsOf(Handles) < MaxAborts

\* ------------------------------------------------------------- xhr used directly
\* A goroutine calls Send on a handle: its first call, or a further one
\* after an earlier Send of its own has returned.
XhrSend(t, h) ==
    /\ pc[t] \in {"idle", "send_ret"}
    /\ SendBegin(t, h)

\* Some goroutine calls Abort on a handle.
XhrAbort(h) ==
    /\ ch[h] => MayAbort
    /\ Abort(h)
    /\ abortFirst' = [abortFirst EXCEPT ![h] =
                        IF @ # "never" THEN @
                        ELSE IF ~ch[h] THEN "unsent" ELSE event[h]]
    /\ UNCHANGED trVars

NextXHR ==
    \/ \E t \in Threads, h \in XhrHandles : XhrSend(t, h)
    \/ \E t \in Threads : SendListen(t)
    \/ \E t \in Threads : SendDispatch(t)
    \/ \E t \in Threads : SendRecv(t)
    \/ \E h \in XhrHandles, e \in TerminalEvents : FireEvent(h, e)
    \/ \E h \in XhrHandles : GoroutineWrite(h)
    \/ \E h \in XhrHandles : XhrAbort(h)

SpecXHR == InitXHR /\ [][NextXHR]_vars

\* The goroutines that are in Send and the listeners' goroutines keep
\* running, and an XMLHttpRequest that was sent and not stopped by abort
\* fires its terminal event.  Calling Send or Abort is up to the callers.
FairnessXHR ==
    /\ \A t \in Threads : WF_vars(SendListen(t))
    /\ \A t \in Threads : WF_vars(SendDispatch(t))
    /\ \A t \in Threads : WF_vars(SendRecv(t))
    /\ \A h \in XhrHandles : WF_vars(\E e \in TerminalEvents : FireEvent(h, e))
    /\ \A h \in XhrHandles : WF_vars(GoroutineWrite(h))

FairSpecXHR == SpecXHR /\ FairnessXHR

\* ------------------------------------------------------------- Transport
\* The orders in which range req.Header can visit the header names.
KeyOrders(S) ==
    { o \in [1..Cardinality(S) -> S] : \A k \in S : \E i \in DOMAIN o : o[i] = k }

\* A header loop that sets each name once, to its first value.
HeaderCallsOfFirst(k, v) == IF v = <<>> THEN <<>> ELSE <<<<k, v[1]>>>>

\* for _, vv := range v { x.SetRequestHeader(k, vv) }
HeaderCallsOf(k, v) == [i \in DOMAIN v |-> <<k, v[i]>>]

RECURSIVE ForwardHeaders(_, _)
\* for k, v := range req.Header { ... }, the names visited in order o
ForwardHeaders(hdr, o) ==
    IF o = <<>> THEN <<>>
    ELSE HeaderCallsOf(Head(o), hdr[Head(o)]) \o ForwardHeaders(hdr, Tail(o))

\* RoundTrip that builds the handle before it looks at Host.
RoundTripStartHostLate(t, a, r) ==
    /\ pc[t] = "idle"
    /\ \A u \in Threads : u < t => pc[u] # "idle"
    /\ \A b \in Adapters : b < a => \E u \in Threads : tr[u] = b
    /\ rq' = [rq EXCEPT ![t] = r]
    /\ tr' = [tr EXCEPT ![t] = a]
    /\ prim' = [prim EXCEPT ![x[t]] = "opened"]
    /\ IF ReqHost(r) # ""
       THEN /\ rtErr' = [rtErr EXCEPT ![t] = ErrHost]
            /\ pc' = [pc EXCEPT ![t] = "done"]
       ELSE /\ pc' = [pc EXCEPT ![t] = "rt_prepare"]
            /\ UNCHANGED rtErr
    /\ UNCHANGED <<ch, buf, recvq, listening, event, reply, response, gor,
                   hdrCalls, writes, outcomes, primAborts, dispatches, abortFirst>>
    /\ UNCHANGED <<x, sendRet, rtResp, bodyRead>>
    /\ UNCHANGED trVars

\* RoundTrip up to NewRequest: the Host check, then the handle is built.
\* The threads are alike and so are the adapters: they are put to use in
\* the order of their names.
RoundTripStart(t, a, r) ==
    /\ pc[t] = "idle"
    /\ \A u \in Threads : u < t => pc[u] # "idle"
    /\ \A b \in Adapters : b < a => \E u \in Threads : tr[u] = b
    /\ rq' = [rq EXCEPT ![t] = r]
    /\ tr' = [tr EXCEPT ![t] = a]
    /\ IF ReqHost(r) # ""
       THEN /\ rtErr' = [rtErr EXCEPT ![t] = ErrHost]
            /\ pc' = [pc EXCEPT ![t] = "done"]
            /\ UNCHANGED prim
       ELSE /\ prim' = [prim EXCEPT ![x[t]] = "opened"]
            /\ pc' = [pc EXCEPT ![t] = "rt_prepare"]
            /\ UNCHANGED rtErr
    /\ UNCHANGED <<ch, buf, recvq, listening, event, reply, response, gor,
                   hdrCalls, writes, outcomes, primAborts, dispatches, abortFirst>>
    /\ UNCHANGED <<x, sendRet, rtResp, bodyRead>>
    /\ UNCHANGED trVars

\* RoundTrip's header loop: for k, v := range req.Header { ... }.
RoundTripHeaders(t) ==
    /\ pc[t] = "rt_prepare"
    /\ \E o \in KeyOrders(DOMAIN ReqHeader(rq[t])) :
         hdrCalls' = [hdrCalls EXCEPT ![x[t]] = @ \o ForwardHeaders(ReqHeader(rq[t]), o)]
    /\ pc' = [pc EXCEPT ![t] = "rt_body"]
    /\ UNCHANGED <<ch, buf, recvq, listening, prim, event, reply, response, gor,
                   writes, outcomes, primAborts, dispatches, abortFirst>>
    /\ UNCHANGED <<x, sendRet, rq, tr, rtErr, rtResp, bodyRead>>
    /\ UNCHANGED trVars

\* RoundTrip that reads every body it is given, nil or not, and goes on
\* whatever the read returns.
RoundTripReadBodyCareless(t) ==
    /\ pc[t] = "rt_body"
    /\ bodyRead' = [bodyRead EXCEPT ![t] = TRUE]
    /\ pc' = [pc EXCEPT ![t] = "rt_register"]
    /\ UNCHANGED <<xhrVars, x, sendRet, rq, tr, rtErr, rtResp, trVars>>

\* RoundTrip's body read: if req.Body != nil, ioutil.ReadAll(req.Body),
\* whose error is returned.  The read may wait; the other goroutines run
\* between the header loop and its end.
RoundTripReadBody(t) ==
    /\ pc[t] = "rt_body"
    /\ IF ReqBody(rq[t]) = "nil"
       THEN /\ pc' = [pc EXCEPT ![t] = "rt_register"]
            /\ UNCHANGED <<bodyRead, rtErr>>
       ELSE /\ bodyRead' = [bodyRead EXCEPT ![t] = TRUE]
            /\ IF ReqBody(rq[t]) = "failing"
               THEN /\ rtErr' = [rtErr EXCEPT ![t] = ErrBody]
                    /\ pc' = [pc EXCEPT ![t] = "done"]
               ELSE /\ pc' = [pc EXCEPT ![t] = "rt_register"]
                    /\ UNCHANGED rtErr
    /\ UNCHANGED <<xhrVars, x, sendRet, rq, tr, rtResp, trVars>>

\* A Lock that never waits.
CanLockUnguarded(a) == TRUE

\* t.mu.Lock() returns only once nobody holds the mutex.
CanLock(a) == mu[a] = {}

\* t.mu.Lock()
Lock(a, who) ==
    /\ CanLock(a)
    /\ mu' = [mu EXCEPT ![a] = @ \cup {who}]

\* defer t.mu.Unlock()
Unlock(a, who) == mu' = [mu EXCEPT ![a] = @ \ {who}]

\* A put that forgets every other entry.
MapPutAlone(m, r, h) == [k \in {r} |-> h]

\* t.inflight[req] = x
MapPut(m, r, h) == [k \in DOMAIN m \cup {r} |-> IF k = r THEN h ELSE m[k]]

\* A delete that removes nothing.
MapDeleteNone(m, r) == m

\* delete(t.inflight, req)
MapDelete(m, r) == [k \in DOMAIN m \ {r} |-> m[k]]

\* setCanceler, entered: the lock is taken.  RoundTrip calls it before
\* Send (to register) and after Send has returned (to deregister).
SetCancelerLock(t) ==
    /\ pc[t] \in {"rt_register", "send_ret"}
    /\ Lock(tr[t], t)
    /\ pc' = [pc EXCEPT ![t] = IF @ = "rt_register" THEN "rt_register_cs"
                                ELSE "rt_deregister_cs"]
    /\ UNCHANGED <<xhrVars, x, sendRet, rq, tr, rtErr, rtResp, bodyRead,
                   mapMade, inflight, cancelMissed, cancelHit>>

\* setCanceler, under the lock: the map is made if nil, the entry is set
\* (x != nil) or deleted (x == nil), and the lock is released.
SetCancelerBody(t) ==
    /\ pc[t] \in {"rt_register_cs", "rt_deregister_cs"}
    /\ mapMade' = [mapMade EXCEPT ![tr[t]] = TRUE]
    /\ IF pc[t] = "rt_deregister_cs"
       THEN /\ inflight' = [inflight EXCEPT ![tr[t]] = MapDelete(@, rq[t])]
            /\ pc' = [pc EXCEPT ![t] = "rt_finish"]
       ELSE /\ inflight' = [inflight EXCEPT ![tr[t]] = MapPut(@, rq[t], x[t])]
            /\ pc' = [pc EXCEPT ![t] = "rt_send"]
    /\ Unlock(tr[t], t)
    /\ UNCHANGED <<xhrVars, x, sendRet, rq, tr, rtErr, rtResp, bodyRead,
                   cancelMissed, cancelHit>>

\* err = x.Send(data)
RoundTripSend(t) ==
    /\ pc[t] = "rt_send"
    /\ SendBegin(t, x[t])

\* textproto's ReadMIMEHeader on the raw header block.
ReadMIMEHeaderFails(block) == block = "malformed"

\* RoundTrip without the check for a cleared Response.
RoundTripFinishUnchecked(t, rep) ==
    /\ pc[t] = "rt_finish"
    /\ pc' = [pc EXCEPT ![t] = "done"]
    /\ IF sendRet[t] # Nil
       THEN /\ rtErr' = [rtErr EXCEPT ![t] = sendRet[t]]
            /\ UNCHANGED <<rtResp, reply>>
       ELSE /\ reply' = [reply EXCEPT ![x[t]] = rep]
            /\ IF rep.hdr = "malformed"
               THEN /\ rtErr' = [rtErr EXCEPT ![t] = ErrHeader]
                    /\ UNCHANGED rtResp
               ELSE /\ rtErr' = [rtErr EXCEPT ![t] = Nil]
                    /\ rtResp' = [rtResp EXCEPT ![t] = rep]
    /\ UNCHANGED <<ch, buf, recvq, listening, prim, event, response, gor,
                   hdrCalls, writes, outcomes, primAborts, dispatches, abortFirst>>
    /\ UNCHANGED <<x, sendRet, rq, tr, bodyRead, trVars>>

\* RoundTrip that turns the statuses from 400 up into the network failure.
RoundTripFinishStatusChecked(t, rep) ==
    /\ pc[t] = "rt_finish"
    /\ pc' = [pc EXCEPT ![t] = "done"]
    /\ IF sendRet[t] # Nil
       THEN /\ rtErr' = [rtErr EXCEPT ![t] = sendRet[t]]
            /\ UNCHANGED <<rtResp, reply>>
       ELSE IF ~response[x[t]]
       THEN /\ rtErr' = [rtErr EXCEPT ![t] = ErrAborted]
            /\ UNCHANGED <<rtResp, reply>>
       ELSE /\ reply' = [reply EXCEPT ![x[t]] = rep]
            /\ IF ReadMIMEHeaderFails(rep.hdr)
               THEN /\ rtErr' = [rtErr EXCEPT ![t] = ErrHeader]
                    /\ UNCHANGED rtResp
               ELSE IF rep.status >= 400
               THEN /\ rtErr' = [rtErr EXCEPT ![t] = ErrFailure]
                    /\ UNCHANGED rtResp
               ELSE /\ rtErr' = [rtErr EXCEPT ![t] = Nil]
                    /\ rtResp' = [rtResp EXCEPT ![t] = rep]
    /\ UNCHANGED <<ch, buf, recvq, listening, prim, event, response, gor,
                   hdrCalls, writes, outcomes, primAborts, dispatches, abortFirst>>
    /\ UNCHANGED <<x, sendRet, rq, tr, bodyRead, trVars>>

\* RoundTrip that reports every failure of Send as the network failure.
RoundTripFinishErrFlattened(t, rep) ==
    /\ pc[t] = "rt_finish"
    /\ pc' = [pc EXCEPT ![t] = "done"]
    /\ IF sendRet[t] # Nil
       THEN /\ rtErr' = [rtErr EXCEPT ![t] = ErrFailure]
            /\ UNCHANGED <<rtResp, reply>>
       ELSE IF ~response[x[t]]
       THEN /\ rtErr' = [rtErr EXCEPT ![t] = ErrAborted]
            /\ UNCHANGED <<rtResp, reply>>
       ELSE /\ reply' = [reply EXCEPT ![x[t]] = rep]
            /\ IF ReadMIMEHeaderFails(rep.hdr)
               THEN /\ rtErr' = [rtErr EXCEPT ![t] = ErrHeader]
                    /\ UNCHANGED rtResp
               ELSE /\ rtErr' = [rtErr EXCEPT ![t] = Nil]
                    /\ rtResp' = [rtResp EXCEPT ![t] = rep]
    /\ UNCHANGED <<ch, buf, recvq, listening, prim, event, response, gor,
                   hdrCalls, writes, outcomes, primAborts, dispatches, abortFirst>>
    /\ UNCHANGED <<x, sendRet, rq, tr, bodyRead, trVars>>

\* RoundTrip after deregistration: the error of Send, the cleared
\* Response, the header parse, the response.  rep is what the loaded
\* XMLHttpRequest holds in Status and getAllResponseHeaders, which nothing
\* reads before this point.
RoundTripFinish(t, rep) ==
    /\ pc[t] = "rt_finish"
    /\ pc' = [pc EXCEPT ![t] = "done"]
    /\ IF sendRet[t] # Nil
       THEN /\ rtErr' = [rtErr EXCEPT ![t] = sendRet[t]]
            /\ UNCHANGED <<rtResp, reply>>
       ELSE IF ~response[x[t]]
       THEN /\ rtErr' = [rtErr EXCEPT ![t] = ErrAborted]
            /\ UNCHANGED <<rtResp, reply>>
       ELSE /\ reply' = [reply EXCEPT ![x[t]] = rep]
            /\ IF ReadMIMEHeaderFails(rep.hdr)
               THEN /\ rtErr' = [rtErr EXCEPT ![t] = ErrHeader]
                    /\ UNCHANGED rtResp
               ELSE /\ rtErr' = [rtErr EXCEPT ![t] = Nil]
                    /\ rtResp' = [rtResp EXCEPT ![t] = rep]
    /\ UNCHANGED <<ch, buf, recvq, listening, prim, event, response, gor,
                   hdrCalls, writes, outcomes, primAborts, dispatches, abortFirst>>
    /\ UNCHANGED <<x, sendRet, rq, tr, bodyRead, trVars>>

\* CancelRequest that aborts a registered handle whatever request it is
\* registered for.
CancelRequestAnyKey(c, a, r) ==
    /\ CanLock(a)
    /\ IF DOMAIN inflight[a] # {}
       THEN \E k \in DOMAIN inflight[a] :
              /\ ch[inflight[a][k]] => MayAbort
              /\ Abort(inflight[a][k])
              /\ UNCHANGED abortFirst
       ELSE UNCHANGED <<xhrVars, thrVars>>
    /\ UNCHANGED <<mu, mapMade, inflight>>

\* func (t *Transport) CancelRequest(req): the lock is taken, the handle
\* registered for req, if any, is aborted, and the lock is released.  Abort
\* does not block, so the call is one step.
CancelRequest(c, a, r) ==
    /\ CanLock(a)
    /\ IF r \in DOMAIN inflight[a]
       THEN /\ ch[inflight[a][r]] => MayAbort
            /\ Abort(inflight[a][r])
            /\ UNCHANGED abortFirst
       ELSE UNCHANGED <<xhrVars, thrVars>>
    /\ UNCHANGED <<mu, mapMade, inflight>>

\* The steps of the RoundTrip callers, the XMLHttpRequests and the
\* listeners' goroutines.
RoundTripSteps ==
    \/ \E t \in Threads, a \in Adapters, r \in Reqs : RoundTripStart(t, a, r)
    \/ \E t \in Threads : RoundTripHeaders(t)
    \/ \E t \in Threads : RoundTripReadBody(t)
    \/ \E t \in Threads : SetCancelerLock(t)
    \/ \E t \in Threads : SetCancelerBody(t)
    \/ \E t \in Threads : RoundTripSend(t)
    \/ \E t \in Threads : SendListen(t)
    \/ \E t \in Threads : SendDispatch(t)
    \/ \E t \in Threads : SendRecv(t)
    \/ \E h \in Handles, e \in TerminalEvents : FireEvent(h, e)
    \/ \E h \in Handles : GoroutineWrite(h)
    \/ \E t \in Threads, rep \in Replies : RoundTripFinish(t, rep)

Next ==
    \/ RoundTripSteps
    \/ \E c \in Cancelers, a \in Adapters, r \in Reqs :
          CancelRequest(c, a, r) /\ UNCHANGED <<cancelMissed, cancelHit>>

Spec == Init /\ [][Next]_vars

\* The same program, with the CancelRequest calls that find no entry for
\* their request noted: cancelMissed flips at each of them, and at no
\* other step.
NextCancel ==
    \/ RoundTripSteps
    \/ \E c \in Cancelers, a \in Adapters, r \in Reqs :
          /\ CancelRequest(c, a, r)
          /\ cancelMissed' = IF r \in DOMAIN inflight[a]
                             THEN cancelMissed ELSE ~cancelMissed
          /\ UNCHANGED cancelHit

SpecCancel == Init /\ [][NextCancel]_vars

\* The same program, with the CancelRequest calls that find an entry
\* noted on the handle they find.
NextRecancel ==
    \/ RoundTripSteps
    \/ \E c \in Cancelers, a \in Adapters, r \in Reqs :
          /\ CancelRequest(c, a, r)
          /\ cancelHit' = IF r \in DOMAIN inflight[a]
                          THEN [cancelHit EXCEPT ![inflight[a][r]] = TRUE]
                          ELSE cancelHit
          /\ UNCHANGED cancelMissed

SpecRecancel == Init /\ [][NextRecancel]_vars

\* ============================================================= claims

\* The outcomes Send may return on handle h: that of the terminal event
\* fired, or ErrAborted once an Abort has gone through.
NaturalOutcome(h) ==
    IF event[h] \in TerminalEvents THEN {EventOutcome(event[h])} ELSE {}
AbortedOutcome(h) == IF primAborts[h] > 0 THEN {ErrAborted} ELSE {}

\* Send has got past its check on handle h.
SendStarted(h) == ch[h]
\* Send has returned on handle h.
SendReturned(h) == outcomes[h] # <<>>

\* C1: whatever way Abort calls interleave with the terminal event of an
\* in-flight Send, Send returns at most once, what it returns is the outcome
\* of the terminal event or ErrAborted, and under fair scheduling a Send
\* that has started does return.
C1_OneOutcome ==
    /\ [](\A h \in XhrHandles :
            /\ Len(outcomes[h]) <= 1
            /\ \A i \in DOMAIN outcomes[h] :
                 outcomes[h][i] \in NaturalOutcome(h) \cup AbortedOutcome(h))
    /\ \A h \in XhrHandles : SendStarted(h) ~> SendReturned(h)

\* An Abort overtook the load event that had already fired, and Send
\* returned ErrAborted.
C1_Witness ==
    \E h \in XhrHandles :
      /\ event[h] = "load"
      /\ abortFirst[h] = "load"
      /\ outcomes[h] = <<ErrAborted>>

\* The entries of the adapters' maps, as <<adapter, request, handle>>.
Entries ==
    { <<a, r, inflight[a][r]>> : <<a, r>> \in
        { ar \in Adapters \X Reqs : ar[2] \in DOMAIN inflight[ar[1]] } }
Registered(h) == \E e \in Entries : e[3] = h

\* A RoundTrip call is between its registration and its deregistration.
InWindow(t) ==
    pc[t] \in {"rt_send", "send_listen", "send_dispatch", "send_recv",
               "send_parked", "send_ret", "rt_deregister_cs"}
\* RoundTrip has been called by thread t.
Called(t) == pc[t] # "idle"
Returned(t) == pc[t] = "done"

\* C2: from its registration until its XMLHttpRequest has completed, a
\* handle is one on which Abort goes through to the XMLHttpRequest (r.ch
\* is made), so that no CancelRequest in that window is lost.
C2_CancelInWindowForwarded ==
    \A e \in Entries : event[e[3]] \notin TerminalEvents => ch[e[3]]

\* C3: every entry of an adapter's map is the registration of a RoundTrip
\* call that is between its registration and its deregistration, under
\* that call's adapter and request; a call that has returned, on any
\* path, has no entry.
C3_NoStaleEntry ==
    /\ \A e \in Entries : InWindow(e[3]) /\ tr[e[3]] = e[1] /\ rq[e[3]] = e[2]
    /\ \A t \in Threads : Returned(t) => ~Registered(x[t])

\* One call has returned after a failed header parse, its entry gone, and
\* a later call with the same request on the same adapter is registered.
C3_Witness ==
    \E t, u \in Threads :
      /\ Returned(t) /\ rtErr[t] = ErrHeader
      /\ InWindow(u) /\ rq[u] = rq[t] /\ tr[u] = tr[t]
      /\ <<tr[u], rq[u], u>> \in Entries

\* C4: when load fired before any Abort was called, Send returns nil,
\* whatever the Abort calls that follow.
C4_LoadBeforeAbortWins ==
    \A h \in XhrHandles :
      abortFirst[h] = "load" => \A i \in DOMAIN outcomes[h] : outcomes[h][i] = Nil

\* Thread t calls Send in this step.
SendCallStep(t) ==
    /\ pc[t] \in {"idle", "send_ret"}
    /\ pc'[t] \in {"send_listen", "panicked"}

\* C5: a Send call on a handle on which Send was called before panics, and
\* registers no listener, dispatches nothing and leaves the handle as it
\* is; no handle is dispatched twice.
C5_SecondSendPanics ==
    /\ [][\A t \in Threads :
            (SendCallStep(t) /\ ch[x'[t]]) =>
               /\ pc'[t] = "panicked"
               /\ UNCHANGED <<ch, buf, recvq, listening, prim, event, response,
                              gor, writes, outcomes, dispatches>>]_vars
    /\ [](\A h \in XhrHandles :
            /\ dispatches[h] <= 1
            /\ \A t \in Threads :
                 (pc[t] = "panicked" /\ x[t] = h) => SendStarted(h))

\* A second Send has panicked while the first is still blocked.
C5_Witness ==
    \E t, u \in Threads :
      /\ pc[t] = "send_parked" /\ pc[u] = "panicked" /\ x[t] = x[u]
      /\ dispatches[x[t]] = 1

\* Nothing has happened to handle h since NewRequest.
Untouched(h) ==
    /\ prim[h] = "opened" /\ event[h] = "none" /\ ~response[h]
    /\ primAborts[h] = 0 /\ dispatches[h] = 0
    /\ buf[h] = <<>> /\ writes[h] = <<>> /\ outcomes[h] = <<>>
    /\ recvq[h] = {} /\ ~listening[h] /\ gor[h] = "none"

\* C6: Abort calls made before Send leave the handle untouched; the Send
\* that follows does not panic, returns the outcome of the terminal event
\* (as long as no later Abort goes through), and under fair scheduling
\* does return.
C6_AbortBeforeSendNoOp ==
    /\ [](\A h \in XhrHandles :
            abortFirst[h] = "unsent" =>
               /\ ~ch[h] => Untouched(h)
               /\ ~ch[h] => \A t \in Threads : pc[t] # "panicked"
               /\ primAborts[h] = 0 =>
                    \A i \in DOMAIN outcomes[h] : outcomes[h][i] \in NaturalOutcome(h))
    /\ \A h \in XhrHandles :
         (abortFirst[h] = "unsent" /\ SendStarted(h)) ~> SendReturned(h)

\* Abort was called before Send, and Send has returned the load outcome.
C6_Witness ==
    \E h \in XhrHandles :
      abortFirst[h] = "unsent" /\ primAborts[h] = 0 /\ outcomes[h] = <<Nil>>

\* C7: a RoundTrip whose Send returned nil and whose Response is cleared
\* returns ErrAborted and no response; no response is ever built from a
\* cleared Response.
C7_ClearedPayloadIsAbort ==
    \A t \in Threads :
      Returned(t) =>
        /\ (sendRet[t] = Nil /\ ~response[x[t]]) =>
              rtErr[t] = ErrAborted /\ rtResp[t] = NoReply
        /\ rtResp[t] # NoReply => response[x[t]]

\* A RoundTrip has returned ErrAborted after its Send returned nil.
C7_Witness ==
    \E t \in Threads :
      /\ Returned(t) /\ sendRet[t] = Nil /\ ~response[x[t]]
      /\ rtErr[t] = ErrAborted

\* C8: a CancelRequest that finds no entry for its request changes
\* nothing: not the maps, not the mutexes, no handle, no RoundTrip.
C8_CancelMissNoEffect ==
    [][cancelMissed' # cancelMissed =>
          UNCHANGED <<xhrVars, thrVars, mu, mapMade, inflight>>]_vars

\* A CancelRequest has found no entry, there is an adapter whose map was
\* never made, and a registered RoundTrip is blocked in Send.
C8_Witness ==
    /\ cancelMissed
    /\ \E a \in Adapters : ~mapMade[a]
    /\ \E t \in Threads : pc[t] = "send_parked" /\ Registered(x[t])

\* C9: a RoundTrip of a request with Host set returns the Host error, and
\* no XMLHttpRequest is made or opened for it, no header is set, no body
\* is read, nothing is registered and nothing is dispatched.
C9_HostOverrideRejected ==
    \A t \in Threads :
      (Called(t) /\ ReqHost(rq[t]) # "") =>
        /\ Returned(t) /\ rtErr[t] = ErrHost /\ rtResp[t] = NoReply
        /\ prim[x[t]] = "none" /\ ~ch[x[t]]
        /\ hdrCalls[x[t]] = <<>> /\ ~bodyRead[t]
        /\ ~Registered(x[t]) /\ dispatches[x[t]] = 0

\* A RoundTrip has returned the Host error.
C9_Witness ==
    \E t \in Threads : Returned(t) /\ rtErr[t] = ErrHost /\ ReqHost(rq[t]) # ""

\* RoundTrip has got past the body read.
PastBodyRead(t) == pc[t] \notin {"idle", "rt_prepare", "rt_body"}

\* C10: when the body read fails, RoundTrip returns that error, Send is
\* never called on the handle and the handle is never registered; a
\* request without a body is never read and never fails with that error.
C10_BodyReadError ==
    \A t \in Threads :
      /\ (PastBodyRead(t) /\ ReqHost(rq[t]) = "" /\ ReqBody(rq[t]) = "failing") =>
            /\ Returned(t) /\ rtErr[t] = ErrBody /\ rtResp[t] = NoReply
            /\ ~ch[x[t]] /\ dispatches[x[t]] = 0 /\ ~Registered(x[t])
      /\ (Called(t) /\ ReqBody(rq[t]) = "nil") =>
            ~bodyRead[t] /\ rtErr[t] # ErrBody

\* One RoundTrip has returned the body-read error, and another, of a
\* request without a body, has returned a response.
C10_Witness ==
    \E t, u \in Threads :
      /\ Returned(t) /\ rtErr[t] = ErrBody /\ bodyRead[t]
      /\ Returned(u) /\ ReqBody(rq[u]) = "nil" /\ rtErr[u] = Nil

\* The errors Send can return.
SendErrors == {ErrTimeout, ErrFailure, ErrAborted}

\* C11: a RoundTrip whose Send returned an error returns that same error
\* and no response; with no abort gone through to the XMLHttpRequest, a
\* timeout event gives the timeout error and an error event the network
\* failure; the three errors are pairwise distinct.
C11_SendErrorPropagated ==
    /\ Cardinality(SendErrors) = 3
    /\ \A t \in Threads :
         Returned(t) =>
           /\ sendRet[t] \in SendErrors =>
                 rtErr[t] = sendRet[t] /\ rtResp[t] = NoReply
           /\ (primAborts[x[t]] = 0 /\ event[x[t]] = "timeout") =>
                 rtErr[t] = ErrTimeout /\ rtResp[t] = NoReply
           /\ (primAborts[x[t]] = 0 /\ event[x[t]] = "error") =>
                 rtErr[t] = ErrFailure /\ rtResp[t] = NoReply

\* One RoundTrip has returned the timeout error after a timeout event and
\* another the network failure after an error event, neither cancelled.
C11_Witness ==
    \E t, u \in Threads :
      /\ Returned(t) /\ event[x[t]] = "timeout" /\ rtErr[t] = ErrTimeout
      /\ Returned(u) /\ event[x[u]] = "error" /\ rtErr[u] = ErrFailure
      /\ primAborts[x[t]] = 0 /\ primAborts[x[u]] = 0

\* RoundTrip has returned from a call whose XMLHttpRequest fired load and
\* on which no abort call went through.
LoadedUncancelled(t) ==
    Returned(t) /\ event[x[t]] = "load" /\ primAborts[x[t]] = 0

\* C12 as stated: for every status carried by a load event with a present
\* payload and no abort, Send returns nil and RoundTrip returns a response
\* with that status and a nil error.
C12_StatusNeverAnError ==
    \A t \in Threads :
      LoadedUncancelled(t) =>
        /\ sendRet[t] = Nil
        /\ rtErr[t] = Nil
        /\ rtResp[t] # NoReply /\ rtResp[t].status = reply[x[t]].status

\* C12, amended: for every status carried by a load event with a present
\* payload and no abort, Send returns nil, and RoundTrip returns a
\* response with that status and a nil error when the header block
\* parses, and the parse error and no response when it does not; the
\* status decides nothing.
C12_StatusNeverAnErrorWhenHeadersParse ==
    \A t \in Threads :
      LoadedUncancelled(t) =>
        /\ sendRet[t] = Nil
        /\ reply[x[t]] \in Replies
        /\ IF ReadMIMEHeaderFails(reply[x[t]].hdr)
           THEN rtErr[t] = ErrHeader /\ rtResp[t] = NoReply
           ELSE /\ rtErr[t] = Nil
                /\ rtResp[t] # NoReply /\ rtResp[t].status = reply[x[t]].status

\* Two RoundTrips have returned responses, one with status 404 and one
\* with status 500, both with a nil error.
C12_Witness ==
    \E t, u \in Threads :
      /\ LoadedUncancelled(t) /\ rtErr[t] = Nil /\ rtResp[t].status = 404
      /\ LoadedUncancelled(u) /\ rtErr[u] = Nil /\ rtResp[u].status = 500

\* The value Send has returned or, failing that, the value waiting for it
\* in the buffer of r.ch; "open" when there is neither.
SendValue(h) ==
    IF outcomes[h] # <<>> THEN outcomes[h][1]
    ELSE IF buf[h] # <<>> THEN Head(buf[h])
    ELSE "open"

\* A CancelRequest that is not the first to find handle h goes through to
\* its XMLHttpRequest in this step.
RepeatedCancelStep(h) == cancelHit[h] /\ primAborts'[h] # primAborts[h]

\* C13: a CancelRequest that finds a handle an earlier CancelRequest has
\* found changes nothing of what RoundTrip returns: not the value Send
\* returns, not the Response that a nil Send is followed by, no RoundTrip
\* state; no call panics and Send never returns twice.
C13_RepeatedCancelNoOp ==
    /\ [][\A h \in Handles :
            RepeatedCancelStep(h) =>
              /\ SendValue(h)' = SendValue(h)
              /\ SendValue(h) = Nil => response'[h] = response[h]
              /\ UNCHANGED <<pc, sendRet, rtErr, rtResp, mu, mapMade, inflight>>]_vars
    /\ [](\A h \in Handles :
            Len(outcomes[h]) <= 1 /\ pc[h] # "panicked")

\* The values passed to SetRequestHeader for name k, in the order of the
\* calls.
ValuesSet(calls, k) ==
    LET sel == SelectSeq(calls, LAMBDA c : c[1] = k)
    IN [i \in DOMAIN sel |-> sel[i][2]]

\* RoundTrip has got past its header loop.
PastHeaderLoop(t) == pc[t] \notin {"idle", "rt_prepare"} /\ ReqHost(rq[t]) = ""

\* C14: once RoundTrip is past its header loop, the values set on the
\* XMLHttpRequest for each header name are the request's values for that
\* name, in the request's order, and no other name was set; no
\* SetRequestHeader call is made once the request is dispatched.
C14_HeadersForwarded ==
    /\ [](\A t \in Threads :
            PastHeaderLoop(t) =>
              /\ \A k \in DOMAIN ReqHeader(rq[t]) :
                   ValuesSet(hdrCalls[x[t]], k) = ReqHeader(rq[t])[k]
              /\ \A i \in DOMAIN hdrCalls[x[t]] :
                   hdrCalls[x[t]][i][1] \in DOMAIN ReqHeader(rq[t]))
    /\ [](\A h \in Handles : dispatches[h] > 0 => PastHeaderLoop(h))
    /\ [][\A h \in Handles :
            hdrCalls'[h] # hdrCalls[h] => dispatches'[h] = 0]_vars

\* A request with two names was forwarded with the two-valued name
\* visited first, and a request with a two-valued name was dispatched.
C14_Witness ==
    \E t, u \in Threads :
      /\ hdrCalls[x[t]] = <<<<"Cookie", "x">>, <<"Cookie", "y">>, <<"Accept", "a">>>>
      /\ hdrCalls[x[u]] = <<<<"Accept", "a">>, <<"Accept", "b">>>>
      /\ dispatches[x[u]] = 1

\* A terminal event has fired on handle h.
EventFired(h) == event[h] \in TerminalEvents

\* C15: when send is called on the XMLHttpRequest, r.ch is made and the
\* listeners are registered; so every terminal event, however early it
\* fires, starts the goroutine that carries its value, Send returns after
\* it, and returns its value unless an abort call went through.
C15_ListenersBeforeDispatch ==
    /\ [](\A h \in XhrHandles :
            /\ dispatches[h] > 0 => ch[h] /\ listening[h]
            /\ EventFired(h) => gor[h] # "none"
            /\ (EventFired(h) /\ primAborts[h] = 0 /\ SendReturned(h)) =>
                  outcomes[h] = <<EventOutcome(event[h])>>)
    /\ \A h \in XhrHandles : EventFired(h) ~> SendReturned(h)

\* The timeout event has fired and its value is in the buffer before Send
\* has come to wait for it.
C15_Witness ==
    \E t \in Threads :
      /\ pc[t] = "send_recv" /\ x[t] \in XhrHandles
      /\ event[x[t]] = "timeout" /\ gor[x[t]] = "done"
      /\ buf[x[t]] = <<ErrTimeout>> /\ primAborts[x[t]] = 0

\* C16: over the life of a handle at most one value is written to r.ch,
\* and no write to it blocks.
C16_OneNonBlockingWrite ==
    \A h \in XhrHandles : Len(writes[h]) <= 1 /\ gor[h] # "blocked"

\* An Abort call goes through to the XMLHttpRequest of handle h in this
\* step.
AbortStep(h) == primAborts'[h] # primAborts[h]

\* C17: an Abort call made while Send waits in <-r.ch and no terminal
\* event has fired makes that Send return ErrAborted at once; and when
\* the first Abort call on a handle in Send met no terminal event, Send
\* returns, and returns ErrAborted, whatever event fires afterwards.
C17_AbortWhileBlocked ==
    /\ [][\A h \in XhrHandles :
            (AbortStep(h) /\ recvq[h] # {} /\ event[h] = "none") =>
               \E t \in recvq[h] :
                 /\ pc'[t] = "send_ret" /\ sendRet'[t] = ErrAborted
                 /\ outcomes'[h] = <<ErrAborted>>]_vars
    /\ [](\A h \in XhrHandles :
            abortFirst[h] = "none" =>
               \A i \in DOMAIN outcomes[h] : outcomes[h][i] = ErrAborted)
    /\ \A h \in XhrHandles :
         abortFirst[h] = "none" ~> outcomes[h] = <<ErrAborted>>

\* Abort was called before any event, Send has returned ErrAborted, and
\* the load event has fired all the same.
C17_Witness ==
    \E h \in XhrHandles :
      /\ abortFirst[h] = "none" /\ outcomes[h] = <<ErrAborted>>
      /\ event[h] = "load" /\ dispatches[h] = 1

\* Thread t is inside setCanceler, between Lock and Unlock.
InSetCanceler(t) == pc[t] \in {"rt_register_cs", "rt_deregister_cs"}
\* Thread t is about to call setCanceler.
AtSetCanceler(t) == pc[t] \in {"rt_register", "send_ret"}

\* C18: a thread is inside setCanceler exactly when it holds the mutex of
\* its own adapter, and a mutex has at most one holder; the map of an
\* adapter changes only in a step of the holder of its mutex, and a
\* CancelRequest reaches a handle only while nobody holds the mutex of
\* the adapter it is registered on; setCanceler can take the lock exactly
\* when the mutex of its own adapter is free, and CancelRequest can go
\* ahead on an adapter whose mutex is free while the mutex of another
\* adapter is held.
C18_MapUnderOwnMutex ==
    /\ [](\A a \in Adapters :
            /\ Cardinality(mu[a]) <= 1
            /\ \A t \in Threads : t \in mu[a] <=> (InSetCanceler(t) /\ tr[t] = a))
    /\ [][\A a \in Adapters :
            (inflight'[a] # inflight[a] \/ mapMade'[a] # mapMade[a]) =>
               \E t \in Threads :
                 /\ mu[a] = {t} /\ mu'[a] = {}
                 /\ InSetCanceler(t) /\ ~InSetCanceler(t)']_vars
    /\ [][\A h \in Handles :
            AbortStep(h) =>
               \E a \in Adapters :
                 /\ mu[a] = {} /\ mu'[a] = {}
                 /\ \E r \in DOMAIN inflight[a] : inflight[a][r] = h]_vars
    /\ [](\A t \in Threads :
            AtSetCanceler(t) => (ENABLED SetCancelerLock(t) <=> mu[tr[t]] = {}))
    /\ [](\A a \in Adapters :
            (mu[a] = {} /\ MayAbort /\ \E b \in Adapters : mu[b] # {}) =>
               \A c \in Cancelers, r \in Reqs : ENABLED CancelRequest(c, a, r))

\* Two threads are inside setCanceler at once, each holding the mutex of
\* its own adapter.
C18_Witness ==
    \E t, u \in Threads :
      /\ InSetCanceler(t) /\ InSetCanceler(u) /\ tr[t] # tr[u]
      /\ mu[tr[t]] = {t} /\ mu[tr[u]] = {u}

\* C19: every goroutine started by a listener completes its write to r.ch
\* and ends.
C19_GoroutinesEnd ==
    \A h \in XhrHandles : gor[h] \in {"spawned", "blocked"} ~> gor[h] = "done"

\* C20 as stated: while a RoundTrip call is between its registration and
\* its deregistration, the map of its adapter maps its request to its own
\* handle, whatever the other calls on that adapter and their requests.
C20_OwnHandleRegistered ==
    \A t \in Threads :
      InWindow(t) => <<tr[t], rq[t], x[t]>> \in Entries

\* No other RoundTrip call has been made with the request of thread t on
\* the adapter of thread t.
RequestUnshared(t) ==
    \A u \in Threads \ {t} : ~(rq[u] = rq[t] /\ tr[u] = tr[t])

\* C20, amended: while a RoundTrip call is between its registration and
\* its deregistration, the map of its adapter maps its request to its own
\* handle, whatever the other calls on that adapter, as long as none of
\* them is made with the same request.
C20_OwnHandleRegisteredUnshared ==
    \A t \in Threads :
      (InWindow(t) /\ RequestUnshared(t)) => <<tr[t], rq[t], x[t]>> \in Entries

\* Two calls with different requests are in Send on the same adapter, each
\* registered with its own handle.
C20_Witness ==
    \E t, u \in Threads :
      /\ t # u /\ tr[t] = tr[u] /\ rq[t] # rq[u]
      /\ pc[t] = "send_parked" /\ pc[u] = "send_parked"
      /\ <<tr[t], rq[t], x[t]>> \in Entries /\ <<tr[u], rq[u], x[u]>> \in Entries

\* C21: a RoundTrip on whose XMLHttpRequest an abort call was made returns
\* one of the errors of Send and no response, also when the call came
\* after Send had returned nil; and an abort call is made on an
\* XMLHttpRequest only while its RoundTrip is registered, never after
\* its deregistration.
C21_AbortedNeverResponds ==
    /\ [](\A t \in Threads :
            (Returned(t) /\ primAborts[x[t]] > 0) =>
               rtErr[t] \in SendErrors /\ rtResp[t] = NoReply)
    /\ [](\A t \in Threads :
            (sendRet[t] = Nil /\ primAborts[x[t]] > 0) => ~response[x[t]])
    /\ [][\A h \in Handles :
            AbortStep(h) => InWindow(h) /\ <<tr[h], rq[h], h>> \in Entries]_vars
    /\ [][\A t \in Threads :
            pc[t] \in {"rt_finish", "done"} => primAborts'[x[t]] = primAborts[x[t]]]_vars

\* A CancelRequest came after Send had returned nil for a loaded request,
\* and RoundTrip has returned ErrAborted.
C21_Witness ==
    \E t \in Threads :
      /\ Returned(t) /\ event[x[t]] = "load" /\ sendRet[t] = Nil
      /\ writes[x[t]] = <<Nil, ErrAborted>> /\ primAborts[x[t]] = 1
      /\ rtErr[t] = ErrAborted /\ rtResp[t] = NoReply

====
